---- MODULE Spec2Model ----
(***************************************************************************)
(* Marine Cadastre AIS processor: the transit-count and vessel-track       *)
(* drivers, the shapefile / GeoTIFF processors and the filename key        *)
(* resolver, as a state machine over the output directory.                 *)
(***************************************************************************)
EXTENDS Integers, Sequences, FiniteSets, TLC

VARIABLES
    driver,           \* "counts" (process_transit_counts) or "tracks" (process_vessel_tracks)
    input_is_file,    \* input_path.is_file()
    files,            \* the enumerated input files, as catalogue ids, in loop order
    force_reprocess,  \* the flag of the current run
    year_now,         \* datetime.now().strftime("%Y") of the current run
    run,              \* number of the current run over the same input
    pc,               \* "loop" inside the for loop, "done" after the summary
    idx,              \* position of the loop in files (1-based, next file to handle)
    fs,               \* output directory: path -> artifact
    writes,           \* path -> number of times the path was opened for writing in this run
    processed_files,
    skipped_files,
    outcome,          \* per handled file of this run: what the loop iteration did
    prev,             \* what the previous run over the same input left behind
    faults_left,      \* failures of the environment still to come in this behaviour
    stemIn,           \* resolver harness: the filename stem handed to the resolver
    keyOut            \* resolver harness: what the resolver returned

vars == <<driver, input_is_file, files, force_reprocess, year_now, run, pc, idx, fs,
          writes, processed_files, skipped_files, outcome, prev, faults_left, stemIn,
          keyOut>>

(***************************************************************************)
(* Bounds.                                                                 *)
(***************************************************************************)
MaxFiles == 2       \* files in one input directory
MaxRuns == 2        \* runs over the same input
MaxFaults == 1      \* failures of the environment (I/O errors) in one behaviour
MaxStemLen == 9     \* length of the stems handed to the resolver harness

(***************************************************************************)
(* Strings: Python text is a TLA+ string; a filename stem is kept as its   *)
(* sequence of characters so that the regular expression can scan it.      *)
(***************************************************************************)
None == "None"

Digits == <<"0", "1", "2", "3", "4", "5", "6", "7", "8", "9">>

IsDigit(c) == \E k \in 1..10 : Digits[k] = c

RECURSIVE Join(_)
Join(cs) == IF cs = <<>> THEN "" ELSE Head(cs) \o Join(Tail(cs))

\* str(n) for a non-negative integer
RECURSIVE IntToStr(_)
IntToStr(n) == IF n < 10 THEN Digits[n + 1]
               ELSE IntToStr(n \div 10) \o Digits[(n % 10) + 1]

\* zero padded decimal of the given width (%Y, %m, %d)
RECURSIVE Pad(_, _)
Pad(n, w) == IF w = 0 THEN "" ELSE Pad(n \div 10, w - 1) \o Digits[(n % 10) + 1]

(***************************************************************************)
(* extract_date_from_filename: re.search(r"(\d{4})", filename).            *)
(* The leftmost position at which four digits follow one another.          *)
(***************************************************************************)
FourDigitsAt(stem, k) ==
    /\ k + 3 <= Len(stem)
    /\ \A j \in k..(k + 3) : IsDigit(stem[j])

extract_date_exact_run(stem) ==
    LET exact(k) == /\ FourDigitsAt(stem, k)
                    /\ (k = 1 \/ ~IsDigit(stem[k - 1]))
                    /\ (k + 4 > Len(stem) \/ ~IsDigit(stem[k + 4]))
        hits == {k \in 1..Len(stem) : exact(k)}
    IN  IF hits = {} THEN None
        ELSE LET k == CHOOSE h \in hits : \A g \in hits : h <= g
             IN  Join(SubSeq(stem, k, k + 3))

extract_date_from_filename(stem) ==
    LET hits == {k \in 1..Len(stem) : FourDigitsAt(stem, k)}
    IN  IF hits = {} THEN None
        ELSE LET k == CHOOSE h \in hits : \A g \in hits : h <= g
             IN  Join(SubSeq(stem, k, k + 3))

\* Python truthiness of the resolver's result: `if date_str:`
truthy_unchecked(s) == TRUE

Truthy(s) == s # None /\ s # ""

(***************************************************************************)
(* Attribute values of a source record, as geopandas hands them over.      *)
(***************************************************************************)
Num(n) == [tag |-> "num", n |-> n]
Str(s) == [tag |-> "str", s |-> s]
NaN == [tag |-> "nan"]
Ts(y, m, d, h) == [tag |-> "ts", y |-> y, m |-> m, d |-> d, h |-> h]
Geom(x, y) == [tag |-> "geom", x |-> x, y |-> y]

WGS84 == "EPSG:4326"
WebMercator == "EPSG:3857"

\* GeoDataFrame.to_crs("EPSG:4326") on one geometry
to_crs(crs, g) ==
    IF crs = WebMercator
    THEN Geom(g.x \div 100, g.y \div 100)   \* model scale: 100 projected units per degree
    ELSE g

\* Series.dt.strftime("%Y-%m-%d")
strftime_date(t) == Pad(t.y, 4) \o "-" \o Pad(t.m, 2) \o "-" \o Pad(t.d, 2)

\* Timestamp.isoformat()
isoformat(t) == strftime_date(t) \o "T" \o Pad(t.h, 2) \o ":00:00"

\* int(v) / float(v): the number, or a raise
ParsableNumbers == ("12" :> 12) @@ ("7" :> 7)

PyInt(v) ==
    IF v.tag = "num" THEN [ok |-> TRUE, val |-> Num(v.n)]
    ELSE IF v.tag = "str" /\ v.s \in DOMAIN ParsableNumbers
         THEN [ok |-> TRUE, val |-> Num(ParsableNumbers[v.s])]
         ELSE [ok |-> FALSE, val |-> Num(0)]

PyFloat(v) ==
    IF v.tag = "num" THEN [ok |-> TRUE, val |-> Num(v.n)]
    ELSE IF v.tag = "nan" THEN [ok |-> TRUE, val |-> NaN]
    ELSE IF v.tag = "str" /\ v.s \in DOMAIN ParsableNumbers
         THEN [ok |-> TRUE, val |-> Num(ParsableNumbers[v.s])]
         ELSE [ok |-> FALSE, val |-> Num(0)]

\* str(v)
PyStr(v) ==
    IF v.tag = "str" THEN Str(v.s)
    ELSE IF v.tag = "num" THEN Str(IntToStr(v.n))
    ELSE IF v.tag = "nan" THEN Str("nan")
    ELSE Str("?")

\* row.get(name, default)
RowGet(row, name, default) == IF name \in DOMAIN row THEN row[name] ELSE default

\* json.dump can encode the value
JsonSerializable(v) == v.tag \in {"num", "str", "nan", "geom"}

\* the time_field each driver is called with (main.py defaults)
TimeField(d) == IF d = "counts" THEN "BaseDateTime" ELSE "TIMESTAMP"

\* a numeric source attribute the driver's serializer consumes
NumericField(d) == IF d = "counts" THEN "VesselCount" ELSE "Length"

(***************************************************************************)
(* The input files the runs draw from.  A vector file is what              *)
(* gpd.read_file returns for it (crs, columns, rows); a raster file is     *)
(* what rasterio.open returns (transform origin, width, height, crs and    *)
(* band 1, kept sparsely: cells not listed hold 0).                        *)
(***************************************************************************)
NoRaster == [width |-> 0, height |-> 0, crs |-> None, origin |-> <<0, 0>>, pixel |-> 2,
             cells |-> <<>>]
NoFrame == [crs |-> None, rows |-> <<>>, columns |-> {}]

Row(d, x, t, n) ==
    ("geometry" :> Geom(x, x)) @@ (TimeField(d) :> t) @@ (NumericField(d) :> n)

RowNoTime(d, x, n) == ("geometry" :> Geom(x, x)) @@ (NumericField(d) :> n)

Frame(crs, rows, columns) == [crs |-> crs, rows |-> rows, columns |-> columns]

Shp(stem, gdf) == [stem |-> stem, ext |-> ".shp", gdf |-> gdf, raster |-> NoRaster]
Tif(stem, r) == [stem |-> stem, ext |-> ".tif", gdf |-> NoFrame, raster |-> r]

Catalogue(d) ==
    LET tf == TimeField(d)
        nf == NumericField(d)
        timed == {"geometry", tf, nf}
        untimed == {"geometry", nf}
    IN  << \* 1: the spec's example: three records on two dates, projected CRS
           Shp(<<"A", "2", "0", "2", "3">>,
               Frame(WebMercator,
                     << Row(d, 100, Ts(2023, 5, 1, 0), Num(3)),
                        Row(d, 200, Ts(2023, 5, 1, 9), Num(4)),
                        Row(d, 300, Ts(2023, 5, 2, 0), Num(5)) >>, timed)),
           \* 2: no temporal field, a five digit run in the name, no CRS declared
           Shp(<<"N", "2", "0", "2", "3", "1">>,
               Frame(None, << RowNoTime(d, 1, Num(2)), RowNoTime(d, 2, Num(6)) >>, untimed)),
           \* 3: a record on a date file 1 has too, with a source attribute
           \*    called "date"; a later record holds text in a numeric attribute
           Shp(<<"B", "2", "0", "2", "3">>,
               Frame(WGS84,
                     << Row(d, 7, Ts(2023, 5, 2, 6), Num(1)) @@ ("date" :> Str("src")),
                        Row(d, 8, Ts(2023, 5, 3, 0), Str("n/a")) @@ ("date" :> Str("src")) >>,
                     timed \cup {"date"})),
           \* 4: no temporal field and no digits in the name
           Shp(<<"X">>, Frame(WGS84, << RowNoTime(d, 4, Num(1)) >>, untimed)),
           \* 5: a raster with positive cells on and off the sampling stride
           Tif(<<"R", "2", "0", "2", "3">>,
               [width |-> 21, height |-> 11, crs |-> WebMercator, origin |-> <<1000, 5000>>,
                pixel |-> 20,
                cells |-> (<<0, 0>> :> 9) @@ (<<0, 10>> :> -1) @@ (<<10, 20>> :> 4)
                          @@ (<<5, 5>> :> 8) @@ (<<10, 0>> :> 16777217)]),
           \* 6: a raster whose only positive cell is off the sampling stride, no
           \*    digits in the name
           Tif(<<"Z">>,
               [width |-> 11, height |-> 1, crs |-> None, origin |-> <<10, 50>>, pixel |-> 2,
                cells |-> (<<0, 0>> :> -2) @@ (<<0, 3>> :> 5)]),
           \* 7: neither a shapefile nor a GeoTIFF
           [stem |-> <<"U", "2", "0", "2", "3">>, ext |-> ".txt",
            gdf |-> NoFrame, raster |-> NoRaster],
           \* 8: a raster that declares EPSG:4326
           Tif(<<"W", "2", "0", "2", "3">>,
               [width |-> 11, height |-> 1, crs |-> WGS84, origin |-> <<10, 50>>, pixel |-> 2,
                cells |-> (<<0, 10>> :> 6)])
        >>

FileIds == 1..8

CountsCatalogue == Catalogue("counts")
TracksCatalogue == Catalogue("tracks")

File(id) == IF driver = "counts" THEN CountsCatalogue[id] ELSE TracksCatalogue[id]

FileName(f) == Join(f.stem) \o f.ext

(***************************************************************************)
(* The output directory.  An artifact is the Feature Collection a file     *)
(* holds; complete = FALSE is a file left behind by a write that raised.   *)
(* key is the partition key the writer used (it is also part of the path). *)
(* A disk is the directory together with the bookkeeping of one loop       *)
(* iteration: n counts the write attempts of the iteration.                *)
(***************************************************************************)
Put(f, k, v) == [x \in (DOMAIN f) \cup {k} |-> IF x = k THEN v ELSE f[x]]

Exists(disk, path) == path \in DOMAIN disk.fs

Artifact(key, features, crs) ==
    [key |-> key, features |-> features, crs |-> crs, complete |-> TRUE]

Truncated(a) == [a EXCEPT !.features = <<>>, !.complete = FALSE]

Disk(f, w) == [fs |-> f, writes |-> w, n |-> 0, touched |-> {}]

\* what the environment does to the file operations of one loop iteration:
\* read = the input cannot be opened; at = the write attempt that raises
\* (0: none); kind = whether the failing write leaves a file behind
NoFault == [read |-> FALSE, at |-> 0, kind |-> "none"]

MaxFaultAt == 2

Faults ==
    {NoFault, [read |-> TRUE, at |-> 0, kind |-> "none"]}
    \cup {[read |-> FALSE, at |-> k, kind |-> c] :
            k \in 1..MaxFaultAt, c \in {"nocreate", "partial"}}

Serializable(a) ==
    \A i \in DOMAIN a.features :
        \A k \in DOMAIN a.features[i].properties :
            JsonSerializable(a.features[i].properties[k])

Count(w, path) == IF path \in DOMAIN w THEN w[path] ELSE 0

\* the write of one artifact; opening the file for writing creates or empties it
WriteTo(disk, path, a, fault, checked) ==
    LET k == disk.n + 1
        hit == fault.at = k
        opened(content) ==
            [fs |-> Put(disk.fs, path, content),
             writes |-> Put(disk.writes, path, Count(disk.writes, path) + 1),
             n |-> k, touched |-> disk.touched \cup {path}]
    IN  IF hit /\ fault.kind = "nocreate"
        THEN [disk |-> [disk EXCEPT !.n = k], raised |-> TRUE]
        ELSE IF (hit /\ fault.kind = "partial") \/ (checked /\ ~Serializable(a))
        THEN [disk |-> opened(Truncated(a)), raised |-> TRUE]
        ELSE [disk |-> opened(a), raised |-> FALSE]

\* with open(output_file, "w") as f: json.dump(geojson_data, f)
json_dump(disk, path, a, fault) == WriteTo(disk, path, a, fault, TRUE)

\* gdf.to_file(output_file, driver="GeoJSON"): every row a Feature whose
\* properties are the non-geometry columns
to_file(disk, path, key, gdf, fault) ==
    LET feature(row) ==
            [geometry |-> row["geometry"],
             properties |-> [k \in (DOMAIN row) \ {"geometry"} |-> row[k]]]
        a == Artifact(key, [i \in DOMAIN gdf.rows |-> feature(gdf.rows[i])], gdf.crs)
    IN  WriteTo(disk, path, a, fault, FALSE)

(***************************************************************************)
(* CRS handling shared by the vector paths (transit 119-124, 136-141;      *)
(* tracks 66-71, 85-90).                                                   *)
(***************************************************************************)
ensure_wgs84_tag_only(gdf) == [gdf EXCEPT !.crs = WGS84]

ensure_wgs84(gdf) ==
    IF gdf.crs # None /\ gdf.crs # WGS84
    THEN [gdf EXCEPT !.crs = WGS84,
                     !.rows = [i \in DOMAIN gdf.rows |->
                                 [gdf.rows[i] EXCEPT !["geometry"] = to_crs(gdf.crs, @)]]]
    ELSE IF gdf.crs = None
    THEN [gdf EXCEPT !.crs = WGS84]
    ELSE gdf

(***************************************************************************)
(* Grouping: gdf.groupby(gdf[time_field].dt.strftime("%Y-%m-%d")).         *)
(* pandas yields the groups in ascending key order; rows whose time is     *)
(* missing fall out of every group.                                        *)
(***************************************************************************)
DayNumber(t) == t.y * 10000 + t.m * 100 + t.d

\* pd.to_datetime(gdf[time_field]) raises on a value it cannot parse
to_datetime_raises(gdf, tf) ==
    \E i \in DOMAIN gdf.rows : gdf.rows[i][tf].tag \notin {"ts", "nan"}

RECURSIVE SortDays(_)
SortDays(S) ==
    IF S = {} THEN <<>>
    ELSE LET m == CHOOSE t \in S : \A u \in S : DayNumber(t) <= DayNumber(u)
         IN  <<m>> \o SortDays(S \ {m})

Day(t) == [y |-> t.y, m |-> t.m, d |-> t.d]

\* the groups, in iteration order: <<date string, rows>>
groupby(gdf, tf) ==
    LET timed == {i \in DOMAIN gdf.rows : gdf.rows[i][tf].tag = "ts"}
        days == SortDays({Day(gdf.rows[i][tf]) : i \in timed})
        rowsOf(day) == SelectSeq(gdf.rows, LAMBDA r : r[tf].tag = "ts" /\ Day(r[tf]) = day)
    IN  [g \in DOMAIN days |-> <<strftime_date(days[g]), rowsOf(days[g])>>]

(***************************************************************************)
(* transit_counts_processor.py: process_shapefile                          *)
(***************************************************************************)
Raise(disk) == [disk |-> disk, raised |-> TRUE]
Return(disk) == [disk |-> disk, raised |-> FALSE]

transit_path(date_str) == "transit_counts_" \o date_str \o ".geojson"

\* lines 159-174: the Feature of one record; ok = FALSE when int() raises
transit_feature(row, date, tf) ==
    LET vc == PyInt(RowGet(row, "VesselCount", Num(0)))
        tc == PyInt(RowGet(row, "TransitCount", Num(0)))
        rest == (DOMAIN row) \ {"geometry", tf, "VesselCount", "TransitCount"}
        curated == ("date" :> Str(date)) @@ ("vessel_count" :> vc.val)
                   @@ ("transit_count" :> tc.val)
    IN  [ok |-> vc.ok /\ tc.ok,
         feature |-> [geometry |-> row["geometry"],
                      \* the later keys of the dict literal replace the earlier ones
                      properties |-> [k \in rest |-> row[k]] @@ curated]]

\* lines 147-179: the loop over the groups
RECURSIVE transit_groups(_, _, _, _, _)
transit_groups(disk, groups, g, tf, fault) ==
    IF g > Len(groups) THEN Return(disk)
    ELSE LET date == groups[g][1]
             rows == groups[g][2]
             output_file == transit_path(date)
         IN  IF Exists(disk, output_file)
             THEN transit_groups(disk, groups, g + 1, tf, fault)
             ELSE LET built == [i \in DOMAIN rows |-> transit_feature(rows[i], date, tf)]
                  IN  IF \E i \in DOMAIN built : ~built[i].ok THEN Raise(disk)
                      ELSE LET a == Artifact(date, [i \in DOMAIN built |-> built[i].feature],
                                             None)
                               w == json_dump(disk, output_file, a, fault)
                           IN  IF w.raised THEN w
                               ELSE transit_groups(w.disk, groups, g + 1, tf, fault)

process_shapefile(disk, f, tf, fault) ==
    LET gdf == f.gdf
        date_str == extract_date_from_filename(f.stem)
    IN  IF fault.read THEN Raise(disk)
        ELSE IF tf \notin gdf.columns
        THEN IF Truthy(date_str)
             THEN to_file(disk, transit_path(date_str), date_str, ensure_wgs84(gdf), fault)
             ELSE Raise(disk)
        ELSE IF to_datetime_raises(gdf, tf) THEN Raise(disk)
        ELSE transit_groups(disk, groupby(ensure_wgs84(gdf), tf), 1, tf, fault)

(***************************************************************************)
(* transit_counts_processor.py: process_geotiff and its fallback           *)
(***************************************************************************)
step == 10

raster_path(date_str, f) ==
    "transit_counts_" \o date_str \o "_" \o Join(f.stem) \o ".geojson"

\* the nearest single precision number of an integer below 2^25 in
\* magnitude: exact up to 2^24, above it the even neighbour (ties to even)
float32(n) ==
    LET a == IF n < 0 THEN 0 - n ELSE n
        lo == (a \div 2) * 2
        r == IF a <= 16777216 \/ lo = a THEN a
             ELSE IF (lo \div 2) % 2 = 0 THEN lo ELSE lo + 2
    IN  IF n < 0 THEN 0 - r ELSE r

\* line 213: band = src.read(1, out_dtype="float32"); line 218: band[y, x]
band(r, y, x) == IF <<y, x>> \in DOMAIN r.cells THEN float32(r.cells[<<y, x>>]) ELSE 0

\* range(0, n, step) has this many members
RangeLen(n) == (n + step - 1) \div step

\* the cells the two nested loops visit, in visiting order
sampled_cells(r) ==
    LET ny == RangeLen(r.height)
        nx == RangeLen(r.width)
    IN  [k \in 1..(ny * nx) |-> <<((k - 1) \div nx) * step, ((k - 1) % nx) * step>>]

\* line 219: `if value > 0`
keep_value_nonnegative(value) == value >= 0

keep_value(value) == value > 0

\* rasterio.transform.xy: the centre of the pixel
xy(r, y, x) ==
    Geom(r.origin[1] + x * r.pixel + (r.pixel \div 2),
         r.origin[2] - y * r.pixel - (r.pixel \div 2))

\* lines 198-245: the primary path
sample_raster(disk, f, date_str, output_file, fault) ==
    LET r == f.raster
        kept == SelectSeq(sampled_cells(r), LAMBDA c : keep_value(band(r, c[1], c[2])))
        point(c) == ("geometry" :> xy(r, c[1], c[2]))
                    @@ ("value" :> Num(band(r, c[1], c[2])))
                    @@ ("date" :> Str(date_str))
                    @@ ("source_file" :> Str(FileName(f)))
        rows == [i \in DOMAIN kept |-> point(kept[i])]
        gdf == IF r.crs # None
               THEN [crs |-> WGS84,
                     rows |-> [i \in DOMAIN rows |->
                                 [rows[i] EXCEPT !["geometry"] = to_crs(r.crs, @)]]]
               ELSE [crs |-> WGS84, rows |-> rows]
    IN  IF fault.read THEN Raise(disk)
        ELSE to_file(disk, output_file, date_str, gdf, fault)

\* what gdal_translate -of CSV and pd.read_csv give the fallback
Exports ==
    { [tool_ok |-> FALSE, has_xy |-> FALSE, rows |-> <<>>],
      [tool_ok |-> TRUE, has_xy |-> FALSE, rows |-> <<>>],
      [tool_ok |-> TRUE, has_xy |-> TRUE, rows |-> << [X |-> 1, Y |-> 2, Z |-> 3] >>] }

\* lines 267-303: the export and what is made of it; exported = the export
\* tool was run
export_point_cloud(disk, f, output_file, date_str, fault, export) ==
    LET row(c) == ("geometry" :> Geom(c.X, c.Y)) @@ ("Z" :> Num(c.Z))
                  @@ ("date" :> Str(date_str))
                  @@ ("source_file" :> Str(FileName(f)))
        gdf == [crs |-> WGS84,
                rows |-> [i \in DOMAIN export.rows |-> row(export.rows[i])]]
        w == to_file(disk, output_file, date_str, gdf, fault)
    IN  IF ~export.tool_ok \/ ~export.has_xy
        THEN [disk |-> disk, raised |-> TRUE, exported |-> TRUE]
        ELSE [disk |-> w.disk, raised |-> w.raised, exported |-> TRUE]

convert_tiff_to_point_cloud_unguarded(disk, f, output_file, date_str, fault, export) ==
    export_point_cloud(disk, f, output_file, date_str, fault, export)

convert_tiff_to_point_cloud(disk, f, output_file, date_str, fault, export) ==
    IF Exists(disk, output_file)
    THEN [disk |-> disk, raised |-> FALSE, exported |-> FALSE]
    ELSE export_point_cloud(disk, f, output_file, date_str, fault, export)

\* lines 247-255: the except branch of the primary path
on_primary_error_swallowed(disk, f, output_file, date_str, fault, export) ==
    LET q == convert_tiff_to_point_cloud(disk, f, output_file, date_str, fault, export)
    IN  [disk |-> q.disk, raised |-> FALSE, primary_raised |-> TRUE, calls |-> 1,
         fallback_raised |-> q.raised, exported |-> q.exported, after_primary |-> disk.fs]

on_primary_error(disk, f, output_file, date_str, fault, export) ==
    LET q == convert_tiff_to_point_cloud(disk, f, output_file, date_str, fault, export)
    IN  [disk |-> q.disk, raised |-> q.raised, primary_raised |-> TRUE, calls |-> 1,
         fallback_raised |-> q.raised, exported |-> q.exported, after_primary |-> disk.fs]

process_geotiff(disk, f, yr, fault, export) ==
    LET found == extract_date_from_filename(f.stem)
        date_str == IF Truthy(found) THEN found ELSE yr
        output_file == raster_path(date_str, f)
        quiet(res) == [disk |-> res.disk, raised |-> res.raised,
                       primary_raised |-> FALSE, calls |-> 0, fallback_raised |-> FALSE,
                       exported |-> FALSE, after_primary |-> <<>>]
    IN  IF Exists(disk, output_file) THEN quiet(Return(disk))
        ELSE LET p == sample_raster(disk, f, date_str, output_file, fault)
             IN  IF ~p.raised THEN quiet(p)
                 ELSE on_primary_error(p.disk, f, output_file, date_str, fault, export)

(***************************************************************************)
(* vessel_tracks_processor.py: the body of the loop of                     *)
(* process_vessel_tracks (lines 48-150)                                    *)
(***************************************************************************)
tracks_path(date_str) == "vessel_tracks_" \o date_str \o ".geojson"

VesselInfoKeys ==
    {"mmsi", "vessel_type", "vessel_name", "length", "width", "draft", "speed", "course"}

\* lines 113-139: the Feature of one record; ok = FALSE when float() raises
tracks_feature(row, date, tf) ==
    LET length == PyFloat(RowGet(row, "Length", Num(0)))
        width == PyFloat(RowGet(row, "Width", Num(0)))
        draft == PyFloat(RowGet(row, "Draft", Num(0)))
        speed == PyFloat(RowGet(row, "SOG", Num(0)))
        course == PyFloat(RowGet(row, "COG", Num(0)))
        vessel_info ==
            ("mmsi" :> PyStr(RowGet(row, "MMSI", Str(""))))
            @@ ("vessel_type" :> PyStr(RowGet(row, "VesselType", Str(""))))
            @@ ("vessel_name" :> PyStr(RowGet(row, "VesselName", Str(""))))
            @@ ("length" :> length.val) @@ ("width" :> width.val)
            @@ ("draft" :> draft.val) @@ ("speed" :> speed.val)
            @@ ("course" :> course.val)
        rest == (DOMAIN row) \ ({"geometry", tf} \cup VesselInfoKeys)
        head == ("date" :> Str(date)) @@ ("timestamp" :> Str(isoformat(row[tf])))
    IN  [ok |-> length.ok /\ width.ok /\ draft.ok /\ speed.ok /\ course.ok,
         feature |-> [geometry |-> row["geometry"],
                      \* the later keys of the dict literal replace the earlier ones
                      properties |-> [k \in rest |-> row[k]] @@ vessel_info @@ head]]

TracksResult(disk, raised, dproc, dskip) ==
    [disk |-> disk, raised |-> raised, dproc |-> dproc, dskip |-> dskip]

\* lines 96-146: the loop over the groups; dproc and dskip are what the
\* iterations so far added to processed_files and skipped_files
RECURSIVE tracks_groups(_, _, _, _, _, _, _, _)
tracks_groups(disk, groups, g, tf, force, fault, dproc, dskip) ==
    IF g > Len(groups) THEN TracksResult(disk, FALSE, dproc, dskip)
    ELSE LET date == groups[g][1]
             rows == groups[g][2]
             output_file == tracks_path(date)
         IN  IF Exists(disk, output_file) /\ ~force
             THEN tracks_groups(disk, groups, g + 1, tf, force, fault, dproc, dskip + 1)
             ELSE LET built == [i \in DOMAIN rows |-> tracks_feature(rows[i], date, tf)]
                  IN  IF \E i \in DOMAIN built : ~built[i].ok
                      THEN TracksResult(disk, TRUE, dproc, dskip)
                      ELSE LET a == Artifact(date, [i \in DOMAIN built |-> built[i].feature],
                                             None)
                               w == json_dump(disk, output_file, a, fault)
                           IN  IF w.raised THEN TracksResult(w.disk, TRUE, dproc, dskip)
                               ELSE tracks_groups(w.disk, groups, g + 1, tf, force, fault,
                                                  dproc + 1, dskip)

tracks_file(disk, f, tf, force, fault) ==
    LET gdf == f.gdf
        date_str == extract_date_from_filename(f.stem)
        output_file == tracks_path(date_str)
    IN  IF fault.read \/ f.ext # ".shp" THEN TracksResult(disk, TRUE, 0, 0)
        ELSE IF tf \notin gdf.columns
        THEN IF Truthy(date_str)
             THEN IF Exists(disk, output_file) /\ ~force
                  THEN TracksResult(disk, FALSE, 0, 1)
                  ELSE LET w == to_file(disk, output_file, date_str, ensure_wgs84(gdf), fault)
                       IN  TracksResult(w.disk, w.raised, IF w.raised THEN 0 ELSE 1, 0)
             ELSE TracksResult(disk, TRUE, 0, 0)
        ELSE IF to_datetime_raises(gdf, tf) THEN TracksResult(disk, TRUE, 0, 0)
        ELSE tracks_groups(disk, groupby(ensure_wgs84(gdf), tf), 1, tf, force, fault, 0, 0)

(***************************************************************************)
(* The runs.                                                               *)
(***************************************************************************)
Injective(q) == \A i, j \in DOMAIN q : q[i] = q[j] => i = j

SeqsUpTo(S, n) == UNION {[1..k -> S] : k \in 0..n}

\* lines 41-48 (transit) and 37-41 (tracks): a single file as it is, or the
\* glob of a directory: *.shp, then for the transit counts *.tif
Inputs(d, single) ==
    IF single THEN {<<id>> : id \in FileIds}
    ELSE LET ext(id) == Catalogue(d)[id].ext
             globbed == {id \in FileIds :
                            ext(id) = ".shp" \/ (d = "counts" /\ ext(id) = ".tif")}
         IN  {q \in SeqsUpTo(globbed, MaxFiles) :
                /\ Injective(q)
                /\ \A i, j \in DOMAIN q : (i < j) => ~(ext(q[i]) = ".tif" /\ ext(q[j]) = ".shp")}

NoPrev == [fs |-> <<>>, processed_files |-> 0, skipped_files |-> 0, outcome |-> <<>>,
           force_reprocess |-> FALSE]

Init ==
    /\ driver \in {"counts", "tracks"}
    /\ input_is_file \in BOOLEAN
    /\ files \in Inputs(driver, input_is_file)
    /\ force_reprocess \in BOOLEAN
    /\ year_now = "2026"
    /\ run = 1
    /\ pc = "loop"
    /\ idx = 1
    /\ fs = <<>>
    /\ writes = <<>>
    /\ processed_files = 0
    /\ skipped_files = 0
    /\ outcome = <<>>
    /\ prev = NoPrev
    /\ faults_left = MaxFaults
    /\ stemIn = <<>>
    /\ keyOut = None

InLoop(d) == pc = "loop" /\ driver = d /\ idx <= Len(files)

CurFile == File(files[idx])

\* the fault the environment chose took effect in the iteration
Effective(fault, disk) == fault.read \/ (fault.at >= 1 /\ fault.at <= disk.n)

\* an iteration that did not enter process_geotiff's try block
NoGeo == [primary_raised |-> FALSE, calls |-> 0, fallback_raised |-> FALSE,
          exported |-> FALSE, after_primary |-> <<>>]

\* the end of one loop iteration: the counters, the directory, the next file.
\* The except clause of the loop catches every exception, so the loop goes on.
EndIteration(disk, raised, dproc, dskip, geo, unsupported, faulted) ==
    /\ fs' = disk.fs
    /\ writes' = disk.writes
    /\ processed_files' = processed_files + dproc
    /\ skipped_files' = skipped_files + dskip
    /\ outcome' = Append(outcome,
                         [id |-> files[idx], raised |-> raised, dproc |-> dproc,
                          dskip |-> dskip, primary_raised |-> geo.primary_raised,
                          calls |-> geo.calls, fallback_raised |-> geo.fallback_raised,
                          exported |-> geo.exported, after_primary |-> geo.after_primary,
                          unsupported |-> unsupported,
                          faulted |-> faulted, touched |-> disk.touched,
                          before |-> DOMAIN fs])
    /\ idx' = idx + 1
    /\ pc' = "loop"
    /\ faulted => faults_left > 0
    /\ faults_left' = (IF faulted THEN faults_left - 1 ELSE faults_left)
    /\ UNCHANGED <<driver, input_is_file, files, force_reprocess, year_now, run, prev,
                   stemIn, keyOut>>

\* transit lines 58-82: the check before the dispatch
already_processed(disk, f, force) ==
    LET date_str == extract_date_from_filename(f.stem)
        output_file == IF f.ext = ".shp" THEN transit_path(date_str)
                       ELSE raster_path(date_str, f)
    IN  /\ f.ext \in {".shp", ".tif"}
        /\ Truthy(date_str)
        /\ Exists(disk, output_file)
        /\ ~force

CountsSkip ==
    /\ InLoop("counts")
    /\ already_processed(Disk(fs, writes), CurFile, force_reprocess)
    /\ EndIteration(Disk(fs, writes), FALSE, 0, 1, NoGeo, FALSE, FALSE)

CountsShapefile ==
    /\ InLoop("counts")
    /\ ~already_processed(Disk(fs, writes), CurFile, force_reprocess)
    /\ CurFile.ext = ".shp"
    /\ \E fault \in Faults :
          LET r == process_shapefile(Disk(fs, writes), CurFile, TimeField(driver), fault)
          IN  EndIteration(r.disk, r.raised, IF r.raised THEN 0 ELSE 1, 0, NoGeo, FALSE,
                           Effective(fault, r.disk))

CountsGeotiff ==
    /\ InLoop("counts")
    /\ ~already_processed(Disk(fs, writes), CurFile, force_reprocess)
    /\ CurFile.ext = ".tif"
    /\ \E fault \in Faults, export \in Exports :
          LET r == process_geotiff(Disk(fs, writes), CurFile, year_now, fault, export)
          IN  EndIteration(r.disk, r.raised, IF r.raised THEN 0 ELSE 1, 0, r, FALSE,
                           Effective(fault, r.disk))

CountsUnsupported ==
    /\ InLoop("counts")
    /\ CurFile.ext \notin {".shp", ".tif"}
    /\ EndIteration(Disk(fs, writes), FALSE, 0, 0, NoGeo, TRUE, FALSE)

TracksFile ==
    /\ InLoop("tracks")
    /\ \E fault \in Faults :
          LET r == tracks_file(Disk(fs, writes), CurFile, TimeField(driver),
                               force_reprocess, fault)
          IN  EndIteration(r.disk, r.raised, r.dproc, r.dskip, NoGeo, FALSE,
                           Effective(fault, r.disk))

\* the summary line after the loop
Summary ==
    /\ pc = "loop"
    /\ idx > Len(files)
    /\ pc' = "done"
    /\ UNCHANGED <<driver, input_is_file, files, force_reprocess, year_now, run, idx, fs,
                   writes, processed_files, skipped_files, outcome, prev, faults_left,
                   stemIn, keyOut>>

\* the command is run once more over the same input and output directory
Rerun ==
    /\ pc = "done"
    /\ run < MaxRuns
    /\ run' = run + 1
    /\ force_reprocess' \in BOOLEAN
    /\ prev' = [fs |-> fs, processed_files |-> processed_files,
                skipped_files |-> skipped_files, outcome |-> outcome,
                force_reprocess |-> force_reprocess]
    /\ pc' = "loop"
    /\ idx' = 1
    /\ writes' = <<>>
    /\ processed_files' = 0
    /\ skipped_files' = 0
    /\ outcome' = <<>>
    /\ UNCHANGED <<driver, input_is_file, files, year_now, fs, faults_left, stemIn, keyOut>>

Next ==
    \/ CountsSkip
    \/ CountsShapefile
    \/ CountsGeotiff
    \/ CountsUnsupported
    \/ TracksFile
    \/ Summary
    \/ Rerun

Spec == Init /\ [][Next]_vars

(***************************************************************************)
(* The resolver on its own: every stem over a small alphabet, up to        *)
(* MaxStemLen characters, handed to extract_date_from_filename.            *)
(***************************************************************************)
StemAlphabet == {"A", "1", "2"}

InitResolver ==
    /\ driver = "counts"
    /\ input_is_file = FALSE
    /\ files = <<>>
    /\ force_reprocess = FALSE
    /\ year_now = "2026"
    /\ run = 1
    /\ pc = "resolve"
    /\ idx = 1
    /\ fs = <<>>
    /\ writes = <<>>
    /\ processed_files = 0
    /\ skipped_files = 0
    /\ outcome = <<>>
    /\ prev = NoPrev
    /\ faults_left = 0
    /\ stemIn \in SeqsUpTo(StemAlphabet, MaxStemLen)
    /\ keyOut = None

Resolve ==
    /\ pc = "resolve"
    /\ keyOut' = extract_date_from_filename(stemIn)
    /\ pc' = "resolved"
    /\ UNCHANGED <<driver, input_is_file, files, force_reprocess, year_now, run, idx, fs,
                   writes, processed_files, skipped_files, outcome, prev, faults_left,
                   stemIn>>

NextResolver == Resolve

SpecResolver == InitResolver /\ [][NextResolver]_vars

(***************************************************************************)
(* tile_generator.py: generate_tiles_from_geojson (driver = "geojson") and *)
(* generate_tiles_from_geotiff (driver = "geotiff") over a tile output     *)
(* directory.  files holds the stems of the input files; fs maps a path    *)
(* of the output directory to what is there: a file, or a directory that   *)
(* is empty or not; force_reprocess is the force_regenerate argument.      *)
(***************************************************************************)
TileStems == {"t2023", "t2024", "t2025"}

\* lines 42-45 and 156-159: one file, or the glob of a directory
TileInputs(single) ==
    IF single THEN {<<b>> : b \in TileStems}
    ELSE {q \in SeqsUpTo(TileStems, MaxFiles) : Injective(q)}

AFile == [dir |-> FALSE, empty |-> FALSE]
ADir(empty) == [dir |-> TRUE, empty |-> empty]

mbtiles_output(base_name) == base_name \o ".mbtiles"
extract_dir(base_name) == base_name
output_path(base_name) == base_name

\* Path.mkdir(parents=True, exist_ok=True)
mkdir(f, p) == IF p \in DOMAIN f THEN f ELSE Put(f, p, ADir(TRUE))

\* any(p.iterdir())
any_iterdir(f, p) == p \in DOMAIN f /\ f[p].dir /\ ~f[p].empty

\* how a run of an external tool ends: with its output written, with an
\* error and nothing written, or with an error after some output
ToolResults == {"ok", "error", "error_partial"}

InitTiles ==
    /\ driver \in {"geojson", "geotiff"}
    /\ input_is_file \in BOOLEAN
    /\ files \in TileInputs(input_is_file)
    /\ force_reprocess \in BOOLEAN
    /\ year_now = "2026"
    /\ run = 1
    /\ pc = "check"
    /\ idx = 1
    /\ fs = <<>>
    /\ writes = <<>>
    /\ processed_files = 0
    /\ skipped_files = 0
    /\ outcome = <<>>
    /\ prev = NoPrev
    /\ faults_left = 0
    /\ stemIn = <<>>
    /\ keyOut = None

\* lines 33-39 and 147-153: the tool is probed before the loop
ToolMissing ==
    /\ pc = "check"
    /\ pc' = "unavailable"     \* return False
    /\ UNCHANGED <<driver, input_is_file, files, force_reprocess, year_now, run, idx, fs,
                   writes, processed_files, skipped_files, outcome, prev, faults_left,
                   stemIn, keyOut>>

ToolFound ==
    /\ pc = "check"
    /\ pc' = "loop"
    /\ UNCHANGED <<driver, input_is_file, files, force_reprocess, year_now, run, idx, fs,
                   writes, processed_files, skipped_files, outcome, prev, faults_left,
                   stemIn, keyOut>>

\* the end of one iteration of a tile loop; the except clause of the loop
\* catches every exception, so the loop goes on
EndTile(f, dproc, dskip, tools, failed) ==
    /\ fs' = f
    /\ processed_files' = processed_files + dproc
    /\ skipped_files' = skipped_files + dskip
    /\ outcome' = Append(outcome,
                         [base |-> files[idx], dproc |-> dproc, dskip |-> dskip,
                          tools |-> tools, failed |-> failed, before |-> fs])
    /\ idx' = idx + 1
    /\ UNCHANGED <<driver, input_is_file, files, force_reprocess, year_now, run, pc,
                   writes, prev, faults_left, stemIn, keyOut>>

\* lines 59-63
geojson_output_exists(f, base_name, force_regenerate) ==
    /\ mbtiles_output(base_name) \in DOMAIN f
    /\ extract_dir(base_name) \in DOMAIN f
    /\ ~force_regenerate

\* lines 59-68
GeojsonSkip ==
    /\ InLoop("geojson")
    /\ geojson_output_exists(fs, files[idx], force_reprocess)
    /\ EndTile(fs, 0, 1, <<>>, FALSE)

\* lines 70-122: tippecanoe --force -o mbtiles_output, then mb-util into
\* extract_dir; only a failure of mb-util is caught on the spot
GeojsonTiles ==
    /\ InLoop("geojson")
    /\ ~geojson_output_exists(fs, files[idx], force_reprocess)
    /\ \E tippecanoe \in ToolResults, mb_util \in ToolResults :
          LET base_name == files[idx]
              tiled == IF tippecanoe = "error" THEN fs
                       ELSE Put(fs, mbtiles_output(base_name), AFile)
              made == mkdir(tiled, extract_dir(base_name))
              extracted == IF mb_util = "error" \/ ~made[extract_dir(base_name)].dir
                           THEN made
                           ELSE Put(made, extract_dir(base_name), ADir(FALSE))
          IN  IF tippecanoe # "ok"
              THEN EndTile(tiled, 0, 0, <<"tippecanoe">>, TRUE)
              ELSE EndTile(extracted, 1, 0, <<"tippecanoe", "mb-util">>, FALSE)

\* lines 172-176
geotiff_output_exists(f, base_name, force_regenerate) ==
    /\ output_path(base_name) \in DOMAIN f
    /\ any_iterdir(f, output_path(base_name))
    /\ ~force_regenerate

\* lines 172-179
GeotiffSkip ==
    /\ InLoop("geotiff")
    /\ geotiff_output_exists(fs, files[idx], force_reprocess)
    /\ EndTile(fs, 0, 1, <<>>, FALSE)

\* lines 181-203: mkdir, then gdal2tiles.py into output_path
GeotiffTiles ==
    /\ InLoop("geotiff")
    /\ ~geotiff_output_exists(fs, files[idx], force_reprocess)
    /\ \E gdal2tiles \in ToolResults :
          LET base_name == files[idx]
              made == mkdir(fs, output_path(base_name))
              tiled == IF gdal2tiles = "error" THEN made
                       ELSE Put(made, output_path(base_name), ADir(FALSE))
          IN  IF gdal2tiles # "ok"
              THEN EndTile(tiled, 0, 0, <<"gdal2tiles.py">>, TRUE)
              ELSE EndTile(tiled, 1, 0, <<"gdal2tiles.py">>, FALSE)

\* lines 124-127 and 205-208: the summary line, return True
TilesSummary ==
    /\ pc = "loop"
    /\ idx > Len(files)
    /\ pc' = "done"
    /\ UNCHANGED <<driver, input_is_file, files, force_reprocess, year_now, run, idx, fs,
                   writes, processed_files, skipped_files, outcome, prev, faults_left,
                   stemIn, keyOut>>

\* the command is run once more over the same input and tile directory
TilesRerun ==
    /\ pc \in {"done", "unavailable"}
    /\ run < MaxRuns
    /\ run' = run + 1
    /\ force_reprocess' \in BOOLEAN
    /\ pc' = "check"
    /\ idx' = 1
    /\ processed_files' = 0
    /\ skipped_files' = 0
    /\ outcome' = <<>>
    /\ UNCHANGED <<driver, input_is_file, files, year_now, fs, writes, prev, faults_left,
                   stemIn, keyOut>>

NextTiles ==
    \/ ToolMissing
    \/ ToolFound
    \/ GeojsonSkip
    \/ GeojsonTiles
    \/ GeotiffSkip
    \/ GeotiffTiles
    \/ TilesSummary
    \/ TilesRerun

SpecTiles == InitTiles /\ [][NextTiles]_vars

(***************************************************************************)
(* Properties.                                                             *)
(***************************************************************************)

\* the maximal runs of digits of a stem, as <<first position, length>>
DigitRuns(stem) ==
    {<<a, n>> \in (1..Len(stem)) \X (1..Len(stem)) :
        /\ a + n - 1 <= Len(stem)
        /\ \A j \in a..(a + n - 1) : IsDigit(stem[j])
        /\ (a = 1 \/ ~IsDigit(stem[a - 1]))
        /\ (a + n > Len(stem) \/ ~IsDigit(stem[a + n]))}

Leftmost(runs) == CHOOSE r \in runs : \A q \in runs : r[1] <= q[1]

\* C6 as stated: the resolver returns the leftmost run of exactly four
\* digits of the stem, and no key when no digit run has exactly four digits
\* (a longer run is not a match).
C6_ExactRunOnly ==
    pc = "resolved" =>
        LET exact == {r \in DigitRuns(stemIn) : r[2] = 4}
        IN  IF exact = {} THEN keyOut = None
            ELSE keyOut = Join(SubSeq(stemIn, Leftmost(exact)[1], Leftmost(exact)[1] + 3))

\* C6 amended: the resolver returns the first four digits of the leftmost
\* run of at least four digits of the stem, and no key exactly when no digit
\* run has four digits or more.
C6_FirstFourOfLongRun ==
    pc = "resolved" =>
        LET long == {r \in DigitRuns(stemIn) : r[2] >= 4}
        IN  IF long = {} THEN keyOut = None
            ELSE keyOut = Join(SubSeq(stemIn, Leftmost(long)[1], Leftmost(long)[1] + 3))

\* a stem whose leftmost long run has five digits, resolved to its first four
C6_Witness ==
    /\ pc = "resolved"
    /\ \E r \in DigitRuns(stemIn) : r[2] = 5
    /\ keyOut # None
    /\ keyOut = Join(SubSeq(stemIn, 1, 4))

(***************************************************************************)
(* Properties of the runs.                                                 *)
(***************************************************************************)
Handled(k) == File(outcome[k].id)

HasTimeField(f) == f.ext = ".shp" /\ TimeField(driver) \in f.gdf.columns

HasFourDigits(f) == \E r \in DigitRuns(f.stem) : r[2] >= 4

\* the calendar dates of the records of a vector file, as YYYY-MM-DD
DatesOf(f) == {strftime_date(f.gdf.rows[i][TimeField(driver)]) : i \in DOMAIN f.gdf.rows}

RowsOn(f, date) ==
    {i \in DOMAIN f.gdf.rows : strftime_date(f.gdf.rows[i][TimeField(driver)]) = date}

VectorPath(key) == IF driver = "counts" THEN transit_path(key) ELSE tracks_path(key)

\* the output paths a file is to be materialized at
Targets(f) ==
    IF HasTimeField(f) THEN {VectorPath(date) : date \in DatesOf(f)}
    ELSE IF f.ext = ".shp"
    THEN IF HasFourDigits(f) THEN {VectorPath(extract_date_from_filename(f.stem))} ELSE {}
    ELSE IF f.ext = ".tif" /\ driver = "counts"
    THEN {raster_path(IF HasFourDigits(f) THEN extract_date_from_filename(f.stem)
                      ELSE year_now, f)}
    ELSE {}

\* a run in which no file raised, the environment failed nothing and every
\* file was of a supported type
Clean(out) ==
    \A k \in DOMAIN out : ~out[k].raised /\ ~out[k].faulted /\ ~out[k].unsupported

\* C1 as stated: a second run without force over the same input leaves the
\* artifacts of the first run as they were and reports every input file as
\* skipped, none as processed.
C1_SecondRunAllSkipped ==
    (/\ pc = "done" /\ run = 2
     /\ ~force_reprocess /\ ~prev.force_reprocess
     /\ Clean(outcome) /\ Clean(prev.outcome))
    => /\ fs = prev.fs
       /\ processed_files = 0
       /\ \A k \in DOMAIN outcome : outcome[k].dproc = 0 /\ outcome[k].dskip >= 1

\* C2 as stated: a target artifact is left as it is exactly when it exists
\* and force_reprocess is false; with force_reprocess every existing target
\* is written again.
C2_ReuseIffExistsAndNotForced ==
    \A k \in DOMAIN outcome :
        (~outcome[k].raised /\ ~outcome[k].faulted) =>
            \A p \in Targets(Handled(k)) :
                (p \notin outcome[k].touched)
                    <=> (p \in outcome[k].before /\ ~force_reprocess)

\* C3 as stated: within one run no output path is written more than once,
\* whatever the input files and the value of force_reprocess.
C3_WrittenAtMostOnce == \A p \in DOMAIN writes : writes[p] <= 1

\* C4 as stated: every Feature of every written artifact carries a date
\* property equal to the partition key of the artifact.
C4_EveryFeatureDated ==
    \A p \in DOMAIN fs :
        fs[p].complete =>
            \A i \in DOMAIN fs[p].features :
                /\ "date" \in DOMAIN fs[p].features[i].properties
                /\ fs[p].features[i].properties["date"] = Str(fs[p].key)
                /\ fs[p].key # ""

\* C5 as stated: a vector file with a temporal field, processed into an
\* empty output directory, leaves exactly one artifact per distinct date,
\* holding one Feature per record of that date, each dated with it.
C5_OneFeaturePerRecordPerDate ==
    (/\ run = 1 /\ Len(outcome) = 1
     /\ HasTimeField(Handled(1)) /\ ~outcome[1].faulted)
    => LET f == Handled(1)
       IN  /\ outcome[1].touched = Targets(f)
           /\ \A date \in DatesOf(f) :
                 /\ VectorPath(date) \in DOMAIN fs
                 /\ LET a == fs[VectorPath(date)]
                    IN  /\ Len(a.features) = Cardinality(RowsOn(f, date))
                        /\ \A i \in DOMAIN a.features :
                              /\ "date" \in DOMAIN a.features[i].properties
                              /\ a.features[i].properties["date"] = Str(date)

\* a vector file with neither the temporal field nor four digits in a row
\* in its name
Unresolvable(f) == f.ext = ".shp" /\ ~HasTimeField(f) /\ ~HasFourDigits(f)

\* C7: a vector file with neither the temporal field nor a 4-digit token in
\* its name is rejected as a whole: its iteration writes nothing, adds to
\* neither counter, and the loop goes on to the end of the input.
C7_UnresolvedFileRejected ==
    /\ \A k \in DOMAIN outcome :
          Unresolvable(Handled(k)) =>
              /\ outcome[k].raised
              /\ outcome[k].touched = {}
              /\ outcome[k].dproc = 0
              /\ outcome[k].dskip = 0
    /\ pc = "loop" => idx = Len(outcome) + 1
    /\ pc = "done" => Len(outcome) = Len(files)

\* an unresolvable file was rejected and the file after it was processed
C7_Witness ==
    \E k \in DOMAIN outcome :
        /\ Unresolvable(Handled(k))
        /\ outcome[k].raised
        /\ k < Len(outcome)
        /\ outcome[k + 1].dproc >= 1

\* C8 as stated: a file whose processing raised adds nothing to the
\* processed count (and the loop goes on with the files after it).
C8_FailingFileNotCounted ==
    /\ \A k \in DOMAIN outcome : outcome[k].raised => outcome[k].dproc = 0
    /\ pc = "done" => Len(outcome) = Len(files)

\* C9: in process_geotiff the fallback runs exactly once when the primary
\* path raised and never otherwise; when the fallback raises too, the driver
\* sees the exception and does not count the file as processed.
C9_FallbackOnceAndPropagates ==
    \A k \in DOMAIN outcome :
        /\ outcome[k].primary_raised => outcome[k].calls = 1
        /\ ~outcome[k].primary_raised => outcome[k].calls = 0
        /\ outcome[k].fallback_raised => (outcome[k].raised /\ outcome[k].dproc = 0)
        /\ outcome[k].fallback_raised => outcome[k].primary_raised

\* the primary path raised, the fallback ran once and raised as well
C9_Witness ==
    \E k \in DOMAIN outcome :
        /\ Handled(k).ext = ".tif"
        /\ outcome[k].primary_raised /\ outcome[k].calls = 1
        /\ outcome[k].fallback_raised /\ outcome[k].raised
        /\ processed_files = 0

\* the cells on the sampling stride: row and column both multiples of ten
OnStride(r) ==
    {c \in (0..(r.height - 1)) \X (0..(r.width - 1)) : c[1] % 10 = 0 /\ c[2] % 10 = 0}

NothingPositiveSampled(r) == \A c \in OnStride(r) : band(r, c[1], c[2]) <= 0

\* C10: a raster whose sampled cells are all non-positive, with no artifact
\* yet, processed by the primary path, leaves its artifact on disk as an
\* empty Feature Collection.
C10_EmptyCollectionWritten ==
    \A k \in DOMAIN outcome :
        LET f == Handled(k)
        IN  (/\ driver = "counts" /\ f.ext = ".tif"
             /\ NothingPositiveSampled(f.raster)
             /\ Targets(f) \cap outcome[k].before = {}
             /\ ~outcome[k].primary_raised /\ ~outcome[k].raised)
            => \A p \in Targets(f) :
                  /\ p \in outcome[k].touched
                  /\ p \in DOMAIN fs
                  /\ fs[p].features = <<>>
                  /\ fs[p].complete

\* such a raster, holding a positive cell off the stride, was processed
C10_Witness ==
    \E k \in DOMAIN outcome :
        LET f == Handled(k)
        IN  /\ f.ext = ".tif" /\ driver = "counts"
            /\ NothingPositiveSampled(f.raster)
            /\ \E c \in DOMAIN f.raster.cells : f.raster.cells[c] > 0
            /\ outcome[k].dproc = 1
            /\ outcome[k].touched = Targets(f)
            /\ \A p \in Targets(f) : fs[p].features = <<>> /\ fs[p].complete

\* the CRS the source of a file declares (None: undeclared)
DeclaredCRS(f) == IF f.ext = ".tif" THEN f.raster.crs ELSE f.gdf.crs

\* a geometry of the source as it is to appear in an artifact
Canonical(crs, g) == IF crs # None /\ crs # WGS84 THEN to_crs(crs, g) ELSE g

\* the source geometries that belong into the artifact at path p: the
\* records of the date of p, all records of a file without temporal field,
\* the centres of the positive cells on the sampling stride of a raster
SourceGeometries(f, p) ==
    IF f.ext = ".tif"
    THEN {xy(f.raster, c[1], c[2]) :
            c \in {d \in OnStride(f.raster) : band(f.raster, d[1], d[2]) > 0}}
    ELSE IF HasTimeField(f)
    THEN {f.gdf.rows[i]["geometry"] :
            i \in {j \in DOMAIN f.gdf.rows :
                     VectorPath(strftime_date(f.gdf.rows[j][TimeField(driver)])) = p}}
    ELSE {f.gdf.rows[i]["geometry"] : i \in DOMAIN f.gdf.rows}

GeometriesOf(a) == {a.features[i].geometry : i \in DOMAIN a.features}

\* the artifacts the latest loop iteration wrote completely on the primary
\* path (not through the raster fallback)
PrimaryWritten ==
    IF outcome = <<>> THEN {}
    ELSE {p \in outcome[Len(outcome)].touched :
            /\ p \in DOMAIN fs
            /\ fs[p].complete
            /\ ~outcome[Len(outcome)].primary_raised}

\* C11: every artifact the primary vector and raster paths write is in
\* WGS84: its geometries are the reprojected source geometries when the
\* source declares a CRS other than EPSG:4326, and the source geometries
\* unchanged when the source declares EPSG:4326 or declares no CRS; a crs
\* member the artifact carries is EPSG:4326.
C11_ArtifactsInWGS84 ==
    \A p \in PrimaryWritten :
        LET f == Handled(Len(outcome))
        IN  /\ fs[p].crs \in {WGS84, None}
            /\ GeometriesOf(fs[p])
                  = {Canonical(DeclaredCRS(f), g) : g \in SourceGeometries(f, p)}

\* a file without a declared CRS left its coordinates as they were, and the
\* file after it, declaring a projected CRS, left reprojected coordinates
C11_Witness ==
    /\ Len(outcome) = 2
    /\ DeclaredCRS(Handled(1)) = None
    /\ DeclaredCRS(Handled(2)) = WebMercator
    /\ \E p \in outcome[1].touched \ outcome[2].touched :
          /\ fs[p].complete /\ fs[p].features # <<>>
          /\ GeometriesOf(fs[p]) = SourceGeometries(Handled(1), p)
    /\ \E p \in PrimaryWritten :
          /\ fs[p].features # <<>>
          /\ GeometriesOf(fs[p]) \cap SourceGeometries(Handled(2), p) = {}
          /\ GeometriesOf(fs[p]) = {to_crs(WebMercator, g) :
                                      g \in SourceGeometries(Handled(2), p)}

\* the curated properties of a vector Feature and the source attribute each
\* is read from
NumericCurated ==
    IF driver = "counts"
    THEN {<<"vessel_count", "VesselCount">>, <<"transit_count", "TransitCount">>}
    ELSE {<<"length", "Length">>, <<"width", "Width">>, <<"draft", "Draft">>,
          <<"speed", "SOG">>, <<"course", "COG">>}

StringCurated ==
    IF driver = "counts" THEN {}
    ELSE {<<"mmsi", "MMSI">>, <<"vessel_type", "VesselType">>,
          <<"vessel_name", "VesselName">>}

\* the value reads as a number
Parsable(v) == v.tag = "num" \/ (v.tag = "str" /\ v.s \in DOMAIN ParsableNumbers)

\* the records of a date, in source order
RecordsOn(f, date) ==
    SelectSeq(f.gdf.rows, LAMBDA r : strftime_date(r[TimeField(driver)]) = date)

\* C12 as stated: serializing the records of a vector file never aborts the
\* file on a missing or unparsable value; a numeric curated property is zero
\* when its source attribute is absent or does not read as a number, a
\* string curated property is the empty string when its attribute is absent.
C12_DefaultsNeverAbort ==
    (/\ outcome # <<>>
     /\ HasTimeField(Handled(Len(outcome)))
     /\ ~outcome[Len(outcome)].faulted)
    => LET k == Len(outcome)
           f == Handled(k)
       IN  /\ ~outcome[k].raised
           /\ \A date \in DatesOf(f) :
                 VectorPath(date) \in outcome[k].touched =>
                     LET a == fs[VectorPath(date)]
                         recs == RecordsOn(f, date)
                     IN  /\ Len(a.features) = Len(recs)
                         /\ \A i \in DOMAIN recs :
                               /\ \A c \in NumericCurated :
                                     (c[2] \notin DOMAIN recs[i] \/ ~Parsable(recs[i][c[2]]))
                                         => a.features[i].properties[c[1]] = Num(0)
                               /\ \A c \in StringCurated :
                                     (c[2] \notin DOMAIN recs[i])
                                         => a.features[i].properties[c[1]] = Str("")

\* the extensions the drivers dispatch on
Recognized == {".shp", ".tif"}

\* C13 as stated: in both drivers a file whose extension is not recognized
\* is handed to no processor, leaves no artifact, and is counted as neither
\* processed nor skipped nor errored.
C13_UnsupportedLeftAlone ==
    \A k \in DOMAIN outcome :
        Handled(k).ext \notin Recognized =>
            /\ outcome[k].unsupported
            /\ ~outcome[k].raised
            /\ outcome[k].touched = {}
            /\ outcome[k].dproc = 0
            /\ outcome[k].dskip = 0

\* the value the source raster holds in a cell
CellValue(r, c) == IF c \in DOMAIN r.cells THEN r.cells[c] ELSE 0

\* the point Feature a positive cell on the stride is to become
PointOf(f, c, key) ==
    [geometry |-> Canonical(f.raster.crs, xy(f.raster, c[1], c[2])),
     properties |-> ("value" :> Num(CellValue(f.raster, c))) @@ ("date" :> Str(key))
                    @@ ("source_file" :> Str(FileName(f)))]

\* C14 as stated: the artifact the primary raster path writes holds exactly
\* one point Feature per cell whose row and column are multiples of 10 and
\* whose value is strictly positive, none for any other cell, and each
\* Feature carries the value of its cell, the partition date and the name
\* of the source file.
C14_OneFeaturePerPositiveStrideCell ==
    (/\ outcome # <<>>
     /\ driver = "counts"
     /\ Handled(Len(outcome)).ext = ".tif")
    => \A p \in PrimaryWritten :
          LET f == Handled(Len(outcome))
              cells == {c \in OnStride(f.raster) : CellValue(f.raster, c) > 0}
              a == fs[p]
          IN  /\ Len(a.features) = Cardinality(cells)
              /\ {a.features[i] : i \in DOMAIN a.features}
                    = {PointOf(f, c, a.key) : c \in cells}

\* the names of the curated properties of a vector Feature
CuratedNames ==
    {c[1] : c \in NumericCurated \cup StringCurated}
    \cup (IF driver = "counts" THEN {"date"} ELSE {"date", "timestamp"})

\* the source attributes the curated properties are read from
ConsumedAttributes == {c[2] : c \in NumericCurated \cup StringCurated}

\* C15 as stated: the properties of a serialized vector Feature are the
\* curated ones plus exactly the source attributes other than the geometry,
\* the temporal field and the attributes consumed into curated properties,
\* and no passthrough attribute replaces date or timestamp.
C15_PassthroughNeverWins ==
    (outcome # <<>> /\ HasTimeField(Handled(Len(outcome))))
    => LET k == Len(outcome)
           f == Handled(k)
           tf == TimeField(driver)
       IN  \A date \in DatesOf(f) :
              (VectorPath(date) \in outcome[k].touched /\ fs[VectorPath(date)].complete) =>
                  LET a == fs[VectorPath(date)]
                      recs == RecordsOn(f, date)
                  IN  /\ Len(a.features) = Len(recs)
                      /\ \A i \in DOMAIN recs :
                            LET props == a.features[i].properties
                            IN  /\ DOMAIN props
                                     = CuratedNames
                                       \cup ((DOMAIN recs[i])
                                              \ ({"geometry", tf} \cup ConsumedAttributes))
                                /\ props["date"] = Str(date)
                                /\ driver = "tracks"
                                      => props["timestamp"] = Str(isoformat(recs[i][tf]))

\* the targets of the file of iteration k that were there before it and
\* that it left unwritten
LeftAsFound(k) ==
    {p \in Targets(Handled(k)) : p \in outcome[k].before /\ p \notin outcome[k].touched}

\* C16 as stated: whenever a vector group or a raster file is not written
\* because its target artifact exists, the skipped counter is incremented,
\* and the processed counter is not incremented for it (an iteration that
\* wrote nothing adds nothing to the processed counter).
C16_SkipIsCountedAsSkip ==
    \A k \in DOMAIN outcome :
        (~outcome[k].raised /\ ~outcome[k].faulted /\ LeftAsFound(k) # {}) =>
            /\ outcome[k].dskip >= 1
            /\ outcome[k].touched = {} => outcome[k].dproc = 0

\* the date a record of a vector file belongs to: the calendar date of its
\* temporal value, or the key resolved from the file name
RecordDate(f, row) ==
    IF HasTimeField(f) THEN strftime_date(row[TimeField(driver)])
    ELSE extract_date_from_filename(f.stem)

\* the artifact holds a Feature for the record
RecordPresent(f, row, a) ==
    \E j \in DOMAIN a.features :
        /\ a.features[j].geometry = Canonical(f.gdf.crs, row["geometry"])
        /\ HasTimeField(f)
              => /\ "timestamp" \in DOMAIN a.features[j].properties
                 /\ a.features[j].properties["timestamp"]
                       = Str(isoformat(row[TimeField(driver)]))

\* C19 as stated: in one run of process_vessel_tracks that starts from an
\* empty output directory, every record of every file that was processed
\* without error is a Feature of the artifact of its date, also when two
\* files hold records of the same date.
C19_NoRecordLost ==
    (driver = "tracks" /\ run = 1) =>
        \A k \in DOMAIN outcome :
            (~outcome[k].raised /\ ~outcome[k].faulted) =>
                LET f == Handled(k)
                IN  \A i \in DOMAIN f.gdf.rows :
                       LET p == tracks_path(RecordDate(f, f.gdf.rows[i]))
                       IN  /\ p \in DOMAIN fs
                           /\ RecordPresent(f, f.gdf.rows[i], fs[p])

(***************************************************************************)
(* Properties of the tile generators.                                      *)
(***************************************************************************)

\* the tile output of an input file is there and is not empty: the tile
\* directory holds something (and, for the vector tiles, the tile archive
\* is there as well)
TileOutputNonEmpty(f, base_name) ==
    IF driver = "geojson"
    THEN mbtiles_output(base_name) \in DOMAIN f /\ any_iterdir(f, extract_dir(base_name))
    ELSE any_iterdir(f, output_path(base_name))

\* C17 as stated: a tile generator skips an input file (counts it as
\* skipped and runs no external tool) exactly when the tile output of the
\* file exists, is not empty and force_regenerate is false; a file whose
\* tiling tool failed is not counted as processed, and the files after it
\* are still handled.
C17_TilesSkipIffOutputNonEmpty ==
    /\ \A k \in DOMAIN outcome :
          /\ (outcome[k].dskip = 1 /\ outcome[k].tools = <<>>)
                <=> (TileOutputNonEmpty(outcome[k].before, outcome[k].base)
                     /\ ~force_reprocess)
          /\ outcome[k].dskip = 1 => outcome[k].dproc = 0
          /\ outcome[k].failed => outcome[k].dproc = 0 /\ outcome[k].dskip = 0
    /\ pc = "loop" => idx = Len(outcome) + 1
    /\ pc = "done" => Len(outcome) = Len(files)

\* the primary raster path of iteration k raised with its output file
\* already on disk
PrimaryLeftOutput(k) ==
    /\ Handled(k).ext = ".tif"
    /\ outcome[k].primary_raised
    /\ Targets(Handled(k)) \subseteq DOMAIN outcome[k].after_primary

\* C18: when the primary raster path raises after its output file was
\* created, the fallback is called and returns without running the export
\* tool or writing anything, no exception reaches the driver, and the
\* driver counts the file as processed, the artifact being what the primary
\* path left.
C18_LeftoverCountsAsProcessed ==
    \A k \in DOMAIN outcome :
        PrimaryLeftOutput(k) =>
            /\ outcome[k].calls = 1
            /\ ~outcome[k].exported
            /\ ~outcome[k].fallback_raised /\ ~outcome[k].raised
            /\ outcome[k].dproc = 1 /\ outcome[k].dskip = 0
            /\ \A p \in Targets(Handled(k)) : Count(writes, p) = 1
            /\ k = Len(outcome) => fs = outcome[k].after_primary

\* the write of the primary path failed half way: the file counts as
\* processed and its artifact is the truncated one
C18_Witness ==
    /\ outcome # <<>>
    /\ PrimaryLeftOutput(Len(outcome))
    /\ processed_files >= 1
    /\ \A p \in Targets(Handled(Len(outcome))) :
          p \in DOMAIN fs /\ ~fs[p].complete /\ p \notin outcome[Len(outcome)].before

====
